---- MODULE Spec2Model ----
(***************************************************************************)
(* Model of scripts/deps.py: the hoist / restore / sort commands that move *)
(* dependency versions of member Cargo.toml manifests into the root's      *)
(* [workspace.dependencies] table, with the .bak backups they take.        *)
(*                                                                         *)
(* State: the file tree under the root (fs), the wall clock in seconds     *)
(* (clock), the number of commands run so far (runs) and the report of the *)
(* last command (last).  One action per command invocation.                *)
(***************************************************************************)
EXTENDS Integers, Sequences, FiniteSets, TLC

VARIABLES fs, clock, runs, last

vars == <<fs, clock, runs, last>>

(***************************************************************************)
(* Bounds of the model.                                                    *)
(***************************************************************************)
\* number of command invocations explored
MaxRuns == 2
\* largest value of the one-second clock
MaxClock == 2

(***************************************************************************)
(* Strings.  Python compares str values by code point; the table gives the *)
(* code points of every string the model uses.                             *)
(***************************************************************************)
CodePoints ==
  [s \in {"a", "b", "vendor", "Cargo.toml", "kintsu", "kintsu-a", "kin",
          "serde", "anyhow"} |->
     CASE s = "a"          -> <<97>>
       [] s = "b"          -> <<98>>
       [] s = "vendor"     -> <<118, 101, 110, 100, 111, 114>>
       [] s = "Cargo.toml" -> <<67, 97, 114, 103, 111, 46, 116, 111, 109, 108>>
       [] s = "kintsu"     -> <<107, 105, 110, 116, 115, 117>>
       [] s = "kintsu-a"   -> <<107, 105, 110, 116, 115, 117, 45, 97>>
       [] s = "kin"        -> <<107, 105, 110>>
       [] s = "serde"      -> <<115, 101, 114, 100, 101>>
       [] s = "anyhow"     -> <<97, 110, 121, 104, 111, 119>>]

\* lexicographic "<" on sequences of integers
RECURSIVE SeqLess(_, _)
SeqLess(x, y) ==
  IF y = <<>> THEN FALSE
  ELSE IF x = <<>> THEN TRUE
  ELSE IF Head(x) # Head(y) THEN Head(x) < Head(y)
  ELSE SeqLess(Tail(x), Tail(y))

\* Python's s < t on str
StrLess(s, t) == SeqLess(CodePoints[s], CodePoints[t])

\* Python's s.startswith(prefix)
StartsWith(s, prefix) ==
  LET cs == CodePoints[s]
      cp == CodePoints[prefix]
  IN  /\ Len(cp) <= Len(cs)
      /\ SubSeq(cs, 1, Len(cp)) = cp

(***************************************************************************)
(* Paths.  A path is the sequence of its parts below the root; the last    *)
(* part is the file name.  A file name is split at the suffixes the code   *)
(* appends: <<"Cargo.toml">>, <<"Cargo.toml", "bak">> for Cargo.toml.bak,  *)
(* and <<"Cargo.toml", ts, "bak">> for Cargo.toml.<ts>.bak.                *)
(***************************************************************************)
IGNORES == {"target", ".git", "node_modules", "vendor"}

SECTIONS == <<"dependencies", "dev-dependencies", "build-dependencies">>

MANIFEST == <<"Cargo.toml">>

\* a path: the directory parts and the file name
Path(dir, name) == [dir |-> dir, name |-> name]

\* root / "Cargo.toml"
root_toml == Path(<<>>, MANIFEST)

\* p.with_name(n)
with_name(p, n) == Path(p.dir, n)

\* set(p.parts), below the root: the directory names (no file name the
\* model uses is an ignored name)
Parts(p) == {p.dir[i] : i \in 1..Len(p.dir)}

\* Python's p < q on Path: the tuples of parts compared part by part
RECURSIVE PartsLess(_, _)
PartsLess(x, y) ==
  IF y = <<>> THEN FALSE
  ELSE IF x = <<>> THEN TRUE
  ELSE IF Head(x) # Head(y) THEN StrLess(Head(x), Head(y))
  ELSE PartsLess(Tail(x), Tail(y))

\* a file name is ordered after its directory parts; every name the model
\* compares in one sort is the same, so only the directories decide
PathLess(p, q) ==
  PartsLess(p.dir \o <<p.name[1]>>, q.dir \o <<q.name[1]>>)

\* a set as a sequence in some order
RECURSIVE SetToSeq(_)
SetToSeq(S) ==
  IF S = {} THEN <<>>
  ELSE LET x == CHOOSE y \in S : TRUE
       IN  <<x>> \o SetToSeq(S \ {x})

\* sorted(paths)
SortedPaths(S) == SortSeq(SetToSeq(S), PathLess)

\* flatten a sequence of sequences
RECURSIVE Concat(_)
Concat(ss) == IF ss = <<>> THEN <<>> ELSE Head(ss) \o Concat(Tail(ss))

\* the elements of a sequence
Range(s) == {s[i] : i \in 1..Len(s)}

(***************************************************************************)
(* The file tree: a function from the paths that exist to their content.   *)
(***************************************************************************)
Exists(f, p) == p \in DOMAIN f

\* p.write_text / shutil.copy2 destination: create or overwrite p
WriteFile(f, p, c) == [q \in (DOMAIN f) \cup {p} |-> IF q = p THEN c ELSE f[q]]

\* shutil.copy2(src, dst)
CopyFile(f, src, dst) == WriteFile(f, dst, f[src])

\* datetime.utcnow().strftime("%Y%m%dT%H%M%SZ"): the clock to the second
Timestamp(t) == ToString(t)

\* the path backup_file(p) writes at time t
BackupPath(f, p, t) ==
  LET bak == with_name(p, p.name \o <<"bak">>)
  IN  IF ~Exists(f, bak) THEN bak
      ELSE with_name(p, p.name \o <<Timestamp(t), "bak">>)

\* faulty variant: no copy is made once Cargo.toml.bak exists
backup_file_once(f, p, t) ==
  IF Exists(f, with_name(p, p.name \o <<"bak">>)) THEN f
  ELSE CopyFile(f, p, with_name(p, p.name \o <<"bak">>))

\* backup_file(p): the tree after the copy
backup_file(f, p, t) == CopyFile(f, p, BackupPath(f, p, t))

\* find_cargo_tomls(root)
find_cargo_tomls(f) ==
  SortedPaths({p \in DOMAIN f : p.name = MANIFEST /\ IGNORES \cap Parts(p) = {}})

(***************************************************************************)
(* Manifests.  An optional value is a sequence of length 0 (absent) or 1.  *)
(* A dependency declaration (the value of one key of a section) is         *)
(*   kind = "str": a bare version string, held in version;                 *)
(*   kind = "tbl": a Table or InlineTable with the optional keys version,  *)
(*                 path, workspace and features (features stands for every *)
(*                 key the code never names).                              *)
(* A table is the sequence of its items [k, v] in file order.  A document  *)
(* holds the three dependency sections and the workspace table, each       *)
(* optional.  A file's content either parses to a document or does not.    *)
(***************************************************************************)
None == <<>>

Some(x) == <<x>>

Simple(v) ==
  [kind |-> "str", version |-> Some(v), path |-> None, workspace |-> None,
   features |-> None]

Detailed(version, path, workspace, features) ==
  [kind |-> "tbl", version |-> version, path |-> path, workspace |-> workspace,
   features |-> features]

\* isinstance(spec, str)
IsStr(spec) == spec.kind = "str"

\* isinstance(spec, (Table, InlineTable))
IsTable(spec) == spec.kind = "tbl"

\* truth value of spec.get(key) for a string-valued key
TruthyStr(opt) == opt # None /\ opt[1] # ""

\* truth value of spec.get("workspace")
TruthyBool(opt) == opt # None /\ opt[1] = TRUE

\* key in table
HasKey(tbl, k) == \E i \in 1..Len(tbl) : tbl[i].k = k

\* table[key]
GetKey(tbl, k) == tbl[CHOOSE i \in 1..Len(tbl) : tbl[i].k = k].v

\* table[key] = value: in place when the key exists, appended otherwise
SetKey(tbl, k, v) ==
  IF HasKey(tbl, k)
  THEN [i \in 1..Len(tbl) |-> IF tbl[i].k = k THEN [k |-> k, v |-> v] ELSE tbl[i]]
  ELSE Append(tbl, [k |-> k, v |-> v])

Doc(deps, dev, build, ws) ==
  [secs |-> [s \in Range(SECTIONS) |->
               CASE s = "dependencies"       -> deps
                 [] s = "dev-dependencies"   -> dev
                 [] s = "build-dependencies" -> build],
   workspace |-> ws]

EmptyDoc == Doc(None, None, None, None)

\* the text of a manifest that is valid TOML
Toml(doc) == [parses |-> TRUE, doc |-> doc]

\* text that tomlkit.parse rejects
Garbage == [parses |-> FALSE, doc |-> EmptyDoc]

\* tomlkit.parse(text) raises on c exactly when ~Parses(c)
Parses(c) == c.parses

\* tomlkit.parse(text)
Parse(c) == c.doc

\* tomlkit.dumps(doc)
Dumps(doc) == [parses |-> TRUE, doc |-> doc]

(***************************************************************************)
(* hoist: the helpers.                                                     *)
(***************************************************************************)
\* ensure_workspace_deps(root_doc): the root document with [workspace] and
\* [workspace.dependencies] created when absent
ensure_workspace_deps(root_doc) ==
  LET d1 == IF root_doc.workspace = None
            THEN [root_doc EXCEPT !.workspace =
                    Some([dependencies |-> None, members |-> None])]
            ELSE root_doc
      ws == d1.workspace[1]
  IN  IF ws.dependencies = None
      THEN [d1 EXCEPT !.workspace = Some([ws EXCEPT !.dependencies = Some(<<>>)])]
      ELSE d1

\* the table ensure_workspace_deps returns (a reference into the document)
ws_deps(root_doc) == root_doc.workspace[1].dependencies[1]

\* ws_deps[dep] = version, through that reference
SetShared(root_doc, dep, version) ==
  [root_doc EXCEPT !.workspace =
     Some([@[1] EXCEPT !.dependencies = Some(SetKey(@[1], dep, Simple(version)))])]

\* extract_version(spec): the optional version
extract_version(spec) ==
  IF IsStr(spec) THEN spec.version
  ELSE IF IsTable(spec)
       THEN IF TruthyStr(spec.path) THEN None ELSE spec.version
       ELSE None

\* faulty variant: the version of a table is not deleted
MutatedSpec_keepsVersion(spec) ==
  IF IsStr(spec) THEN Detailed(None, None, Some(TRUE), None)
  ELSE IF IsTable(spec)
       THEN [spec EXCEPT !.workspace = Some(TRUE)]
       ELSE spec

\* the new declaration mutate_member_dep leaves at dep_table[dep]
MutatedSpec(spec) ==
  IF IsStr(spec) THEN Detailed(None, None, Some(TRUE), None)
  ELSE IF IsTable(spec)
       THEN [spec EXCEPT !.version = None, !.workspace = Some(TRUE)]
       ELSE spec

\* faulty variant: the declaration is changed on a copy, the table is left as it was
mutate_member_dep_onCopy(dep_table, dep, version) == dep_table

\* mutate_member_dep(dep_table, dep, version)
mutate_member_dep(dep_table, dep, version) ==
  SetKey(dep_table, dep, MutatedSpec(GetKey(dep_table, dep)))

\* already marked workspace = true: not collected
IsWorkspaceRef(spec) == IsTable(spec) /\ TruthyBool(spec.workspace)

\* the declarations of one section of one member that the collection loop
\* appends, in file order
SectionOccurrences(docs, p, sec) ==
  LET tbl == docs[p].secs[sec]
  IN  IF tbl = None THEN <<>>
      ELSE SelectSeq([i \in 1..Len(tbl[1]) |->
                        [dep |-> tbl[1][i].k, sec |-> sec, p |-> p,
                         spec |-> tbl[1][i].v]],
                     LAMBDA o : ~IsWorkspaceRef(o.spec))

\* every collected occurrence, in the order of the loops over files[1:] and
\* SECTIONS
Occurrences(docs, files) ==
  Concat([i \in 1..(Len(files) - 1) |->
            Concat([j \in 1..Len(SECTIONS) |->
                      SectionOccurrences(docs, files[i + 1], SECTIONS[j])])])

\* a sequence without its repeated elements, first appearances kept
RECURSIVE Distinct(_)
Distinct(s) ==
  IF s = <<>> THEN <<>>
  ELSE LET h == Head(s)
       IN  <<h>> \o Distinct(SelectSeq(Tail(s), LAMBDA x : x # h))

\* needed: the keys in insertion order, each with its occurrence list
needed(docs, files) ==
  LET occs == Occurrences(docs, files)
      keys == Distinct([i \in 1..Len(occs) |-> occs[i].dep])
  IN  [i \in 1..Len(keys) |->
         [dep |-> keys[i],
          occ |-> SelectSeq(occs, LAMBDA o : o.dep = keys[i])]]

\* faulty variant: every candidate replaces the version found so far
RECURSIVE ResolveFrom_lastWins(_, _, _)
ResolveFrom_lastWins(occ, i, version) ==
  IF i > Len(occ) THEN [skip |-> FALSE, version |-> version]
  ELSE LET spec == occ[i].spec
           v    == extract_version(spec)
       IN  IF v = None
           THEN IF IsTable(spec) /\ TruthyStr(spec.path)
                THEN [skip |-> TRUE, version |-> version]
                ELSE ResolveFrom_lastWins(occ, i + 1, version)
           ELSE ResolveFrom_lastWins(occ, i + 1, v)

\* the "find first version" loop from occurrence i on, version found so far
RECURSIVE ResolveFrom(_, _, _)
ResolveFrom(occ, i, version) ==
  IF i > Len(occ) THEN [skip |-> FALSE, version |-> version]
  ELSE LET spec == occ[i].spec
           v    == extract_version(spec)
       IN  IF v = None
           THEN IF IsTable(spec) /\ TruthyStr(spec.path)
                THEN [skip |-> TRUE, version |-> version]
                ELSE ResolveFrom(occ, i + 1, version)
           ELSE ResolveFrom(occ, i + 1, IF version = None THEN v ELSE version)

Resolve(occ) == ResolveFrom(occ, 1, None)

\* faulty variant: updated counts the name once, not each occurrence
RECURSIVE MutateOccurrences_countsNames(_, _, _, _, _)
MutateOccurrences_countsNames(st, dep, occ, version, i) ==
  IF i > Len(occ) THEN st
  ELSE LET o    == occ[i]
           sect == st.docs[o.p].secs[o.sec]
       IN  IF sect # None /\ HasKey(sect[1], dep)
           THEN MutateOccurrences_countsNames(
                  [st EXCEPT
                     !.docs[o.p].secs[o.sec] =
                        Some(mutate_member_dep(sect[1], dep, version)),
                     !.updated = IF i = 1 THEN @ + 1 ELSE @],
                  dep, occ, version, i + 1)
           ELSE MutateOccurrences_countsNames(st, dep, occ, version, i + 1)

\* the "mutate each member occurrence" loop from occurrence i on
RECURSIVE MutateOccurrences(_, _, _, _, _)
MutateOccurrences(st, dep, occ, version, i) ==
  IF i > Len(occ) THEN st
  ELSE LET o    == occ[i]
           sect == st.docs[o.p].secs[o.sec]
       IN  IF sect # None /\ HasKey(sect[1], dep)
           THEN MutateOccurrences(
                  [st EXCEPT
                     !.docs[o.p].secs[o.sec] =
                        Some(mutate_member_dep(sect[1], dep, version)),
                     !.updated = @ + 1],
                  dep, occ, version, i + 1)
           ELSE MutateOccurrences(st, dep, occ, version, i + 1)

\* faulty variant: the shared entry is written whether or not the name is present
AddShared_always(st, dep, version) ==
  [st EXCEPT !.docs[root_toml] = SetShared(@, dep, version),
             !.added = @ + 1,
             !.log = Append(@, <<"add", dep, version>>)]

\* "add to workspace.dependencies if not present"
AddShared(st, dep, version) ==
  IF ~HasKey(ws_deps(st.docs[root_toml]), dep)
  THEN [st EXCEPT !.docs[root_toml] = SetShared(@, dep, version),
                  !.added = @ + 1,
                  !.log = Append(@, <<"add", dep, version>>)]
  ELSE st

\* faulty variant: the skip branch lacks its continue and falls into the loop that
\* mutates the occurrences
HoistDep_noContinue(st, dep, occ) ==
  LET r == Resolve(occ)
  IN  IF r.skip \/ r.version = None
      THEN MutateOccurrences(
             [st EXCEPT !.skipped = @ + 1, !.log = Append(@, <<"skip", dep>>)],
             dep, occ, "", 1)
      ELSE MutateOccurrences(AddShared(st, dep, r.version[1]), dep, occ,
                             r.version[1], 1)

\* one iteration of "for dep, occ in needed.items()"
HoistDep(st, dep, occ) ==
  LET r == Resolve(occ)
  IN  IF r.skip \/ r.version = None
      THEN [st EXCEPT !.skipped = @ + 1, !.log = Append(@, <<"skip", dep>>)]
      ELSE MutateOccurrences(AddShared(st, dep, r.version[1]), dep, occ,
                             r.version[1], 1)

RECURSIVE HoistLoop(_, _, _)
HoistLoop(st, nd, i) ==
  IF i > Len(nd) THEN st
  ELSE HoistLoop(HoistDep(st, nd[i].dep, nd[i].occ), nd, i + 1)

\* files: the root manifest first, then the other discovered manifests
HoistFiles(f) ==
  <<root_toml>> \o SelectSeq(find_cargo_tomls(f), LAMBDA p : p # root_toml)

\* the documents, counters and verbose lines when the loops of hoist end
HoistCompute(f) ==
  LET files == HoistFiles(f)
      docs0 == [p \in Range(files) |-> Parse(f[p])]
      nd    == needed(docs0, files)
      docs1 == [docs0 EXCEPT ![root_toml] = ensure_workspace_deps(@)]
  IN  HoistLoop([docs |-> docs1, added |-> 0, updated |-> 0, skipped |-> 0,
                 log |-> <<>>], nd, 1)

\* the member manifests the write loop reaches, in its order
HoistMemberTargets(f) ==
  LET files == HoistFiles(f)
      docs0 == [p \in Range(files) |-> Parse(f[p])]
      nd    == needed(docs0, files)
      flat  == Concat([i \in 1..Len(nd) |-> nd[i].occ])
  IN  SelectSeq(Distinct([i \in 1..Len(flat) |-> flat[i].p]),
                LAMBDA p : p # root_toml)

\* the manifests hoist writes, in order
HoistTargets(f) ==
  (IF HoistCompute(f).added # 0 THEN <<root_toml>> ELSE <<>>)
    \o HoistMemberTargets(f)

\* backup_file(p) then p.write_text(dumps(docs[p])) for every target from i on
RECURSIVE WritePhase(_, _, _, _, _)
WritePhase(w, targets, docs, t, i) ==
  IF i > Len(targets) THEN w
  ELSE LET p   == targets[i]
           bak == BackupPath(w.fs, p, t)
           f1  == backup_file(w.fs, p, t)
           f2  == WriteFile(f1, p, Dumps(docs[p]))
       IN  WritePhase([fs |-> f2,
                       modified |-> Append(w.modified,
                                           [file |-> p, bak |-> bak.name])],
                      targets, docs, t, i + 1)

\* faulty variant: the manifest is written first and backed up after
RECURSIVE WritePrefix_writeFirst(_, _, _, _, _, _)
WritePrefix_writeFirst(w, targets, docs, t, i, k) ==
  IF i > Len(targets) \/ k = 0 THEN w
  ELSE LET p   == targets[i]
           f1  == WriteFile(w.fs, p, Dumps(docs[p]))
           bak == BackupPath(f1, p, t)
           w1  == [fs |-> f1,
                   modified |-> Append(w.modified,
                                       [file |-> p, bak |-> bak.name])]
       IN  IF k = 1 THEN w1
           ELSE WritePrefix_writeFirst([w1 EXCEPT !.fs = backup_file(f1, p, t)],
                                       targets, docs, t, i + 1, k - 2)

\* the write phase from target i on, cut short after k file operations:
\* backup_file(p) is one operation, p.write_text(...) the next
RECURSIVE WritePrefix(_, _, _, _, _, _)
WritePrefix(w, targets, docs, t, i, k) ==
  IF i > Len(targets) \/ k = 0 THEN w
  ELSE LET p   == targets[i]
           bak == BackupPath(w.fs, p, t)
           f1  == backup_file(w.fs, p, t)
           w1  == [fs |-> f1,
                   modified |-> Append(w.modified,
                                       [file |-> p, bak |-> bak.name])]
       IN  IF k = 1 THEN w1
           ELSE WritePrefix([w1 EXCEPT !.fs = WriteFile(f1, p, Dumps(docs[p]))],
                            targets, docs, t, i + 1, k - 2)

(***************************************************************************)
(* restore and sort: the helpers.                                          *)
(***************************************************************************)
\* sorted(root.rglob("Cargo.toml.bak"))
RestoreBackups(f) ==
  SortedPaths({p \in DOMAIN f : p.name = MANIFEST \o <<"bak">>})

\* faulty variant: the arguments of the copy are swapped
RestoreOne_swapped(f, dry, bak, orig) ==
  IF dry THEN f ELSE CopyFile(f, orig, bak)

\* "if not dry_run: shutil.copy2(bak, orig)"
RestoreOne(f, dry, bak, orig) ==
  IF dry THEN f ELSE CopyFile(f, bak, orig)

\* faulty variant: the original is not tested for existence, every backup
\* outside the ignored directories is copied
RECURSIVE RestoreLoop_noExistsTest(_, _, _, _)
RestoreLoop_noExistsTest(r, backups, dry, i) ==
  IF i > Len(backups) THEN r
  ELSE LET bak  == backups[i]
           orig == with_name(bak, MANIFEST)
       IN  IF IGNORES \cap Parts(bak) # {}
           THEN RestoreLoop_noExistsTest(r, backups, dry, i + 1)
           ELSE RestoreLoop_noExistsTest(
                  [r EXCEPT
                     !.modified = Append(@, [file |-> orig, bak |-> bak.name]),
                     !.fs = RestoreOne(@, dry, bak, orig)],
                  backups, dry, i + 1)

\* the loop over the backups from i on; r holds the tree, the restored list
\* and the echoed "skip" lines
RECURSIVE RestoreLoop(_, _, _, _)
RestoreLoop(r, backups, dry, i) ==
  IF i > Len(backups) THEN r
  ELSE LET bak  == backups[i]
           orig == with_name(bak, MANIFEST)
       IN  IF IGNORES \cap Parts(bak) # {}
           THEN RestoreLoop(r, backups, dry, i + 1)
           ELSE IF Exists(r.fs, orig)
           THEN RestoreLoop(
                  [r EXCEPT
                     !.modified = Append(@, [file |-> orig, bak |-> bak.name]),
                     !.fs = RestoreOne(@, dry, bak, orig)],
                  backups, dry, i + 1)
           ELSE RestoreLoop([r EXCEPT !.log = Append(@, <<"skip", bak>>)],
                            backups, dry, i + 1)

\* the items of a table whose key starts with "kintsu" (or the others)
KintsuItems(tbl, want) ==
  SelectSeq(tbl, LAMBDA it : StartsWith(it.k, "kintsu") = want)

\* sorted((k, v) ...): the keys of one table are distinct, so the key decides
\* every comparison
SortedItems(items) == SortSeq(items, LAMBDA x, y : StrLess(x.k, y.k))

\* faulty variant: one sort of all the items, the kintsu names not taken first
sort_deps_table_flat(tbl) == SortedItems(tbl)

\* sort_deps_table(tbl)
sort_deps_table(tbl) ==
  SortedItems(KintsuItems(tbl, TRUE)) \o SortedItems(KintsuItems(tbl, FALSE))

\* faulty variant: the members are put in reverse order instead of sorted
SortedMembers_reversed(ms) == [i \in 1..Len(ms) |-> ms[Len(ms) + 1 - i]]

\* sorted(ws["members"])
SortedMembers(ms) == SortSeq(ms, StrLess)

\* the section loop of sort on one document, from section j on
RECURSIVE SortSections(_, _)
SortSections(d, j) ==
  IF j > Len(SECTIONS) THEN d
  ELSE LET sec == SECTIONS[j]
           tbl == d.doc.secs[sec]
       IN  IF tbl # None
           THEN SortSections(
                  [doc |-> [d.doc EXCEPT !.secs[sec] = Some(sort_deps_table(tbl[1]))],
                   modified |-> TRUE], j + 1)
           ELSE SortSections(d, j + 1)

\* the workspace part of sort on one document
SortWorkspace(d) ==
  IF d.doc.workspace = None THEN d
  ELSE LET ws == d.doc.workspace[1]
           d1 == IF ws.dependencies # None
                 THEN [doc |-> [d.doc EXCEPT !.workspace =
                                  Some([ws EXCEPT !.dependencies =
                                          Some(sort_deps_table(ws.dependencies[1]))])],
                       modified |-> TRUE]
                 ELSE d
           ws1 == d1.doc.workspace[1]
       IN  IF ws1.members # None
           THEN [doc |-> [d1.doc EXCEPT !.workspace =
                            Some([ws1 EXCEPT !.members =
                                    Some(SortedMembers(ws1.members[1]))])],
                 modified |-> TRUE]
           ELSE d1

\* the body of sort's loop on one parsed document: the document to write and
\* the modified flag
SortDoc(doc) == SortWorkspace(SortSections([doc |-> doc, modified |-> FALSE], 1))

\* the loop of sort over the files from i on; an unparsable file raises and
\* ends the command where it stands
RECURSIVE SortLoop(_, _, _, _, _)
SortLoop(r, files, dry, t, i) ==
  IF i > Len(files) THEN r
  ELSE LET p  == files[i]
           f1 == backup_file(r.fs, p, t)
       IN  IF ~Parses(f1[p])
           THEN [r EXCEPT !.fs = f1, !.status = "error"]
           ELSE LET d == SortDoc(Parse(f1[p]))
                IN  IF d.modified
                    THEN SortLoop(
                           [r EXCEPT
                              !.fs = IF dry THEN f1 ELSE WriteFile(f1, p, Dumps(d.doc)),
                              !.count = @ + 1,
                              !.log = IF dry THEN @ ELSE Append(@, <<"sorted", p>>)],
                           files, dry, t, i + 1)
                    ELSE SortLoop([r EXCEPT !.fs = f1], files, dry, t, i + 1)

(***************************************************************************)
(* The commands.  last is the report of the command that ran last: what it *)
(* was, how it ended ("ok": exit 0, "exit1": typer.Exit(1), "error": an    *)
(* uncaught exception), its counters and echoed lines, the tree it started *)
(* from (pre) and the command before it (prev).                            *)
(***************************************************************************)
Summary(l) ==
  [op |-> l.op, dry |-> l.dry, status |-> l.status, added |-> l.added,
   updated |-> l.updated, skipped |-> l.skipped,
   changed |-> \E p \in DOMAIN l.pre :
                  p.name = MANIFEST /\ fs[p] # l.pre[p]]

Report(op, dry, status, f) ==
  [op |-> op, dry |-> dry, status |-> status, added |-> 0, updated |-> 0,
   skipped |-> 0, count |-> 0, modified |-> <<>>, log |-> <<>>, pre |-> f,
   prev |-> Summary(last)]

\* faulty variant: the dry-run exit is missing
DryRunExit_never(dry) == FALSE

\* "if dry_run: ... raise typer.Exit()": the command ends before the writes
DryRunExit(dry) == dry

\* the body of hoist on tree f at time t: the tree it leaves, how it ends
\* and what it reports
HoistRun(f, dry, t) ==
  IF ~Exists(f, root_toml)
  THEN [fs |-> f, status |-> "exit1", added |-> 0, updated |-> 0,
        skipped |-> 0, log |-> <<>>, modified |-> <<>>]
  ELSE IF \E p \in Range(HoistFiles(f)) : ~Parses(f[p])
  THEN [fs |-> f, status |-> "error", added |-> 0, updated |-> 0,
        skipped |-> 0, log |-> <<>>, modified |-> <<>>]
  ELSE LET st == HoistCompute(f)
           w  == IF DryRunExit(dry)
                 THEN [fs |-> f, modified |-> <<>>]
                 ELSE WritePhase([fs |-> f, modified |-> <<>>],
                                 HoistTargets(f), st.docs, t, 1)
       IN  [fs |-> w.fs, status |-> "ok", added |-> st.added,
            updated |-> st.updated, skipped |-> st.skipped, log |-> st.log,
            modified |-> w.modified]

\* hoist --root ROOT [--dry-run] -v
Hoist(dry) ==
  /\ runs < MaxRuns
  /\ runs' = runs + 1
  /\ clock' = clock
  /\ \E r \in {HoistRun(fs, dry, clock)} :
         /\ fs' = r.fs
         /\ last' = [Report("hoist", dry, r.status, fs) EXCEPT
                       !.added = r.added, !.updated = r.updated,
                       !.skipped = r.skipped, !.log = r.log,
                       !.modified = r.modified]

\* a non-dry-run hoist that is killed in its write phase, after k of the
\* file operations: what it echoed before stays echoed, the status tells
\* that the process did not end by itself
HoistCrash ==
  /\ runs < MaxRuns
  /\ runs' = runs + 1
  /\ clock' = clock
  /\ HoistRun(fs, TRUE, clock).status = "ok"
  /\ \E st \in {HoistCompute(fs)} :
       \E k \in 0..(2 * Len(HoistTargets(fs)) - 1) :
         \E w \in {WritePrefix([fs |-> fs, modified |-> <<>>],
                               HoistTargets(fs), st.docs, clock, 1, k)} :
           /\ fs' = w.fs
           /\ last' = [Report("hoist", FALSE, "crashed", fs) EXCEPT
                         !.added = st.added, !.updated = st.updated,
                         !.skipped = st.skipped, !.log = st.log,
                         !.modified = w.modified]

\* the body of restore on tree f: with no Cargo.toml.bak at all it echoes
\* and exits 0, otherwise it runs the loop
RestoreRun(f, dry) ==
  LET backups == RestoreBackups(f)
  IN  IF backups = <<>>
      THEN [fs |-> f, modified |-> <<>>, log |-> <<"none">>]
      ELSE RestoreLoop([fs |-> f, modified |-> <<>>, log |-> <<>>],
                       backups, dry, 1)

\* restore --root ROOT [--dry-run]
Restore(dry) ==
  /\ runs < MaxRuns
  /\ runs' = runs + 1
  /\ clock' = clock
  /\ \E r \in {RestoreRun(fs, dry)} :
         /\ fs' = r.fs
         /\ last' = [Report("restore", dry, "ok", fs) EXCEPT
                       !.modified = r.modified, !.log = r.log,
                       !.count = Len(r.modified)]

\* the body of sort on tree f at time t
SortRun(f, dry, t) ==
  SortLoop([fs |-> f, status |-> "ok", count |-> 0, log |-> <<>>],
           find_cargo_tomls(f), dry, t, 1)

\* sort --root ROOT [--dry-run]
Sort(dry) ==
  /\ runs < MaxRuns
  /\ runs' = runs + 1
  /\ clock' = clock
  /\ \E r \in {SortRun(fs, dry, clock)} :
         /\ fs' = r.fs
         /\ last' = [Report("sort", dry, r.status, fs) EXCEPT
                       !.count = r.count, !.log = r.log]

\* a second passes between two commands
Tick ==
  /\ clock < MaxClock
  /\ clock' = clock + 1
  /\ UNCHANGED <<fs, runs, last>>

Next ==
  \/ \E dry \in BOOLEAN : Hoist(dry)
  \/ \E dry \in BOOLEAN : Restore(dry)
  \/ \E dry \in BOOLEAN : Sort(dry)
  \/ Tick

(***************************************************************************)
(* Initial trees.  A tree holds the root manifest, the members a/ and b/   *)
(* and vendor/ (an ignored directory).                                     *)
(***************************************************************************)
DirA == <<"a">>

DirB == <<"b">>

DirV == <<"vendor">>

BAK == MANIFEST \o <<"bak">>

Item(k, v) == [k |-> k, v |-> v]

\* declarations
S1 == Simple("1.0")
S2 == Simple("2.0")
TVer == Detailed(Some("1.0"), None, None, Some("derive"))
TVer2 == Detailed(Some("2.0"), None, Some(FALSE), Some("derive"))
TPath == Detailed(None, Some("../x"), None, None)
TPathVer == Detailed(Some("2.0"), Some("../x"), None, Some("derive"))
TGit == Detailed(None, None, None, Some("git"))
TWs == Detailed(None, None, Some(TRUE), Some("derive"))
TWsPath == Detailed(None, Some("../x"), Some(TRUE), None)

\* contents of a/Cargo.toml
ContentsA ==
  { Toml(Doc(Some(<<Item("serde", S1)>>), None, None, None)),
    Toml(Doc(Some(<<Item("serde", TVer)>>), Some(<<Item("serde", S2)>>), None, None)),
    Toml(Doc(Some(<<Item("serde", S1), Item("kintsu-a", TPath)>>), None, None, None)),
    Toml(Doc(Some(<<Item("serde", TPath)>>), None, None, None)),
    Toml(Doc(Some(<<Item("kin", TGit), Item("serde", TWs), Item("kintsu-a", S2)>>),
             None, Some(<<Item("serde", S2)>>), None)) }

\* contents of b/Cargo.toml
ContentsB ==
  { Toml(Doc(Some(<<Item("serde", S2)>>), None, None, None)),
    Toml(Doc(Some(<<Item("kintsu-a", S1)>>), Some(<<Item("serde", TVer2)>>), None, None)),
    Toml(Doc(Some(<<Item("serde", TPath)>>), None, None, None)),
    Toml(Doc(Some(<<Item("serde", TGit), Item("anyhow", TPathVer)>>), None, None, None)),
    Toml(Doc(Some(<<Item("serde", TWsPath)>>), None, None, None)) }

\* contents of the root Cargo.toml
ContentsRoot ==
  { Toml(EmptyDoc),
    Toml(Doc(Some(<<Item("serde", TWs), Item("kintsu-a", TWs)>>), None, None,
             Some([dependencies |-> None, members |-> Some(<<"b", "a">>)]))),
    Toml(Doc(None, None, None,
             Some([dependencies |->
                     Some(<<Item("serde", S2), Item("anyhow", S1)>>),
                   members |-> Some(<<"a", "b">>)]))) }

\* an older content of a/Cargo.toml and of b/Cargo.toml, kept as a backup
OldContent == Toml(Doc(Some(<<Item("serde", S2), Item("anyhow", S1)>>), None, None, None))

\* the files of vendor/: a vendored crate shipped with a backup file
VendorFiles ==
  { [p |-> Path(DirV, MANIFEST),
     c |-> Toml(Doc(Some(<<Item("serde", S1), Item("anyhow", S1)>>), None, None, None))],
    [p |-> Path(DirV, BAK), c |-> Toml(EmptyDoc)] }

\* the file of an optional content
File(dir, name, c) ==
  IF c = None THEN {} ELSE {[p |-> Path(dir, name), c |-> c[1]]}

\* the tree that holds the given files
Tree(files) ==
  [p \in {e.p : e \in files} |-> (CHOOSE e \in files : e.p = p).c]

Opt(S) == {None} \cup {Some(c) : c \in S}

\* trees without backups: every choice of valid root, a and b
PlainTrees ==
  { Tree(File(<<>>, MANIFEST, r) \cup File(DirA, MANIFEST, Some(a))
           \cup File(DirB, MANIFEST, b)) :
      r \in Opt(ContentsRoot), a \in ContentsA, b \in Opt(ContentsB) }

\* trees with one manifest that does not parse
MalformedTrees ==
  LET r == CHOOSE c \in ContentsRoot : c.doc.workspace # None /\ c.doc.workspace[1].dependencies # None
      a == Toml(Doc(Some(<<Item("serde", S1), Item("kintsu-a", TPath)>>), None, None, None))
      b == Toml(Doc(Some(<<Item("serde", S2)>>), None, None, None))
  IN  { Tree(File(<<>>, MANIFEST, Some(rr)) \cup File(DirA, MANIFEST, Some(aa))
               \cup File(DirB, MANIFEST, Some(bb))) :
          <<rr, aa, bb>> \in {<<Garbage, a, b>>, <<r, Garbage, b>>, <<r, a, Garbage>>} }

\* trees left by earlier runs and edits: backups already present, a backup
\* whose manifest is gone, a vendored crate
BackupTrees ==
  LET a == Toml(Doc(Some(<<Item("serde", S1), Item("kintsu-a", TPath)>>), None, None, None))
      b == Toml(Doc(Some(<<Item("serde", S2)>>), None, None, None))
  IN  { Tree(File(<<>>, MANIFEST, Some(r)) \cup File(DirA, MANIFEST, Some(a))
               \cup File(DirB, MANIFEST, bb) \cup File(DirA, BAK, abak)
               \cup File(DirB, BAK, bbak) \cup v) :
          r \in {c \in ContentsRoot : c.doc.secs["dependencies"] = None},
          bb \in Opt({b}), abak \in Opt({OldContent}),
          bbak \in Opt({OldContent}), v \in {{}, VendorFiles} }

NoReport ==
  [op |-> "none", dry |-> FALSE, status |-> "ok", added |-> 0, updated |-> 0,
   skipped |-> 0, count |-> 0, modified |-> <<>>, log |-> <<>>,
   pre |-> <<>>,
   prev |-> [op |-> "none", dry |-> FALSE, status |-> "ok", added |-> 0,
             updated |-> 0, skipped |-> 0, changed |-> FALSE]]

Init ==
  /\ clock = 1
  /\ runs = 0
  /\ last = NoReport
  /\ fs \in PlainTrees \cup MalformedTrees \cup BackupTrees

Spec == Init /\ [][Next]_vars

\* hoist as a process that may be killed between two file operations, and
\* restore, the way back from what it leaves
NextCrash ==
  \/ \E dry \in BOOLEAN : Hoist(dry)
  \/ HoistCrash
  \/ \E dry \in BOOLEAN : Restore(dry)
  \/ Tick

SpecCrash == Init /\ [][NextCrash]_vars

(***************************************************************************)
(* Vocabulary of the properties, stated on trees and reports rather than   *)
(* through the operators of the commands.                                  *)
(***************************************************************************)
IsManifest(p) == p.name = MANIFEST

IsBackup(p) == Len(p.name) >= 2 /\ p.name[1] = "Cargo.toml" /\ p.name[Len(p.name)] = "bak"

Ignored(p) == \E i \in 1..Len(p.dir) : p.dir[i] \in IGNORES

\* the manifests below the root that discovery reaches, the root's aside
MemberManifests(f) ==
  {p \in DOMAIN f : IsManifest(p) /\ ~Ignored(p) /\ p # root_toml}

\* the manifests discovery reaches
Discovered(f) == {p \in DOMAIN f : IsManifest(p) /\ ~Ignored(p)}

SectionNames == {"dependencies", "dev-dependencies", "build-dependencies"}

SectionIndex(sec) == CHOOSE j \in 1..Len(SECTIONS) : SECTIONS[j] = sec

\* the declarations of manifest p in tree f
Declarations(f, p) ==
  UNION { IF f[p].doc.secs[sec] = None THEN {}
          ELSE { [p |-> p, sec |-> sec, dep |-> f[p].doc.secs[sec][1][i].k,
                  spec |-> f[p].doc.secs[sec][1][i].v] :
                   i \in 1..Len(f[p].doc.secs[sec][1]) } :
          sec \in SectionNames }

MemberDeclarations(f) == UNION {Declarations(f, p) : p \in MemberManifests(f)}

\* a declaration that already refers to the workspace
FlaggedWorkspace(spec) == spec.kind = "tbl" /\ spec.workspace = <<TRUE>>

\* a path reference with no version
PathOnly(spec) == spec.kind = "tbl" /\ spec.path # <<>> /\ spec.version = <<>>

\* the occurrences hoist collects from tree f
Collected(f) == {o \in MemberDeclarations(f) : ~FlaggedWorkspace(o.spec)}

\* the declaration of dep in section sec of manifest p in tree f, if any
DeclarationAt(f, p, sec, dep) ==
  {o.spec : o \in {x \in Declarations(f, p) : x.sec = sec /\ x.dep = dep}}

\* the root's shared table in tree f (empty when the root has none)
SharedTable(f) ==
  IF f[root_toml].doc.workspace = <<>> THEN <<>>
  ELSE IF f[root_toml].doc.workspace[1].dependencies = <<>> THEN <<>>
  ELSE f[root_toml].doc.workspace[1].dependencies[1]

SharedNames(f) == {SharedTable(f)[i].k : i \in 1..Len(SharedTable(f))}

SharedEntries(f, dep) ==
  {i \in 1..Len(SharedTable(f)) : SharedTable(f)[i].k = dep}

\* the names in the echoed lines of one kind ("skip", "add")
Echoed(l, word) ==
  {l.log[i][2] : i \in {j \in 1..Len(l.log) : l.log[j][1] = word}}

HoistOk == last.op = "hoist" /\ last.status = "ok"

HoistDone == HoistOk /\ ~last.dry

\* the names hoisted by the last run: collected and not skipped
HoistedNames == {o.dep : o \in Collected(last.pre)} \ Echoed(last, "skip")

\* the manifests the last run overwrote
Overwritten ==
  IF last.op = "hoist" THEN {last.modified[i].file : i \in 1..Len(last.modified)}
  ELSE IF last.op = "sort" THEN Echoed(last, "sorted")
  ELSE {}

\* occurrence o1 is met before o2: manifest order, then section order
MetBefore(o1, o2) ==
  \/ PathLess(o1.p, o2.p)
  \/ o1.p = o2.p /\ SectionIndex(o1.sec) < SectionIndex(o2.sec)

\* the first version that the collected occurrences of dep carry in tree f
FirstVersion(f, dep) ==
  LET cands == {o \in Collected(f) : o.dep = dep /\ o.spec.version # <<>>}
  IN  (CHOOSE o \in cands : \A o2 \in cands \ {o} : MetBefore(o, o2)).spec.version[1]

(***************************************************************************)
(* Backups.                                                                *)
(***************************************************************************)
\* C1: every manifest overwritten by a non-dry-run hoist or sort has, after
\* the run, a backup beside it that holds the content the manifest had when
\* the run began, also when Cargo.toml.bak was already taken.
C1_BackupOfOverwritten ==
  (last.op \in {"hoist", "sort"} /\ ~last.dry) =>
    \A p \in Overwritten :
      \E q \in DOMAIN fs :
        /\ IsBackup(q)
        /\ q.dir = p.dir
        /\ fs[q] = last.pre[p]

\* a run overwrote a manifest whose Cargo.toml.bak existed before it, and
\* changed that manifest's content
C1_Witness ==
  /\ last.op \in {"hoist", "sort"}
  /\ ~last.dry
  /\ \E p \in Overwritten :
       /\ with_name(p, BAK) \in DOMAIN last.pre
       /\ fs[p] # last.pre[p]
       /\ last.pre[with_name(p, BAK)] # last.pre[p]

\* C2: no command changes the content of a backup file that exists.
C2_BackupNeverOverwritten ==
  last.op # "none" =>
    \A q \in DOMAIN last.pre : IsBackup(q) => (q \in DOMAIN fs /\ fs[q] = last.pre[q])

(***************************************************************************)
(* hoist.                                                                  *)
(***************************************************************************)
\* C3: after a non-dry-run hoist, every collected occurrence of a hoisted
\* name that is not path-only has no version and workspace = true; a bare
\* string became the table {workspace = true}, a table kept its other keys.
C3_OccurrencesRewritten ==
  HoistDone =>
    \A o \in Collected(last.pre) :
      (o.dep \in HoistedNames /\ ~PathOnly(o.spec)) =>
        /\ DeclarationAt(fs, o.p, o.sec, o.dep) # {}
        /\ \A n \in DeclarationAt(fs, o.p, o.sec, o.dep) :
             /\ n.kind = "tbl"
             /\ n.version = <<>>
             /\ n.workspace = <<TRUE>>
             /\ o.spec.kind = "str" => (n.path = <<>> /\ n.features = <<>>)
             /\ o.spec.kind = "tbl" =>
                  (n.path = o.spec.path /\ n.features = o.spec.features)

\* a hoist rewrote a bare string and a table with other keys
C3_Witness ==
  /\ HoistDone
  /\ \E o1, o2 \in Collected(last.pre) :
       /\ {o1.dep, o2.dep} \subseteq HoistedNames
       /\ o1.spec.kind = "str"
       /\ o2.spec.kind = "tbl" /\ o2.spec.version # <<>> /\ o2.spec.features # <<>>

\* C4, as claimed: after a non-dry-run hoist the shared table holds exactly
\* one entry for every hoisted name, equal to the first version met, whatever
\* the root manifest held before.
C4_SharedIsFirstVersion ==
  HoistDone =>
    \A d \in HoistedNames :
      /\ Cardinality(SharedEntries(fs, d)) = 1
      /\ GetKey(SharedTable(fs), d) = Simple(FirstVersion(last.pre, d))

\* C4, amended: exactly one entry for every hoisted name; it is the first
\* version met when the shared table had no entry for the name before the
\* run, and the entry it had before otherwise.
C4_SharedIsFirstVersionUnlessPresent ==
  HoistDone =>
    \A d \in HoistedNames :
      /\ Cardinality(SharedEntries(fs, d)) = 1
      /\ IF d \in SharedNames(last.pre)
         THEN GetKey(SharedTable(fs), d) = GetKey(SharedTable(last.pre), d)
         ELSE GetKey(SharedTable(fs), d) = Simple(FirstVersion(last.pre, d))

\* a hoist inserted a name whose occurrences carry two different versions,
\* and hoisted another name that the shared table already held
C4_Witness ==
  /\ HoistDone
  /\ \E d \in HoistedNames \ SharedNames(last.pre) :
       \E o \in Collected(last.pre) :
         /\ o.dep = d
         /\ o.spec.version # <<>>
         /\ o.spec.version[1] # FirstVersion(last.pre, d)
  /\ \E d \in HoistedNames : d \in SharedNames(last.pre)

\* C5: a hoist run keeps every entry the shared table held before it, name
\* and value.
C5_SharedAppendOnly ==
  (last.op = "hoist" /\ root_toml \in DOMAIN last.pre /\ last.pre[root_toml].parses) =>
    /\ root_toml \in DOMAIN fs
    /\ fs[root_toml].parses
    /\ \A i \in 1..Len(SharedTable(last.pre)) :
         /\ SharedTable(last.pre)[i].k \in SharedNames(fs)
         /\ GetKey(SharedTable(fs), SharedTable(last.pre)[i].k)
              = SharedTable(last.pre)[i].v

\* a hoist wrote the root, and hoisted a name that the shared table held
\* with another version than the members declare
C5_Witness ==
  /\ HoistDone
  /\ last.added > 0
  /\ \E d \in HoistedNames \cap SharedNames(last.pre) :
       GetKey(SharedTable(last.pre), d) # Simple(FirstVersion(last.pre, d))

\* C6: a non-dry-run hoist right after a non-dry-run hoist reports
\* added = 0 and updated = 0 and leaves every manifest as it was.
C6_HoistIdempotent ==
  (HoistDone /\ last.prev.op = "hoist" /\ last.prev.status = "ok" /\ ~last.prev.dry) =>
    /\ last.added = 0
    /\ last.updated = 0
    /\ {p \in DOMAIN fs : IsManifest(p)} = {p \in DOMAIN last.pre : IsManifest(p)}
    /\ \A p \in DOMAIN fs : IsManifest(p) => fs[p] = last.pre[p]

\* the first of two hoists in a row added and rewrote, the second skipped a
\* name again
C6_Witness ==
  /\ HoistDone
  /\ last.prev.op = "hoist" /\ last.prev.status = "ok" /\ ~last.prev.dry
  /\ last.prev.added > 0
  /\ last.prev.updated > 1
  /\ last.skipped > 0

\* C7: a name whose declarations in the members are all path references
\* with no version is not added to the shared table and none of its
\* declarations changes; when hoist collected an occurrence of it (the
\* occurrences of the data model: declarations not yet flagged workspace),
\* it is echoed and counted as skipped.
C7_PathOnlyUntouched ==
  HoistOk =>
    /\ last.skipped = Cardinality({j \in 1..Len(last.log) : last.log[j][1] = "skip"})
    /\ \A d \in {o.dep : o \in MemberDeclarations(last.pre)} :
         (\A o \in MemberDeclarations(last.pre) : o.dep = d => PathOnly(o.spec)) =>
           /\ d \notin Echoed(last, "add")
           /\ d \in SharedNames(fs) => d \in SharedNames(last.pre)
           /\ \A o \in MemberDeclarations(last.pre) :
                o.dep = d => DeclarationAt(fs, o.p, o.sec, o.dep) = {o.spec}
           /\ (\E o \in Collected(last.pre) : o.dep = d) =>
                (d \in Echoed(last, "skip") /\ last.skipped >= 1)

\* a non-dry-run hoist met a path-only name, skipped it and hoisted another
C7_Witness ==
  /\ HoistDone
  /\ last.added > 0
  /\ \E d \in {o.dep : o \in Collected(last.pre)} :
       /\ \A o \in MemberDeclarations(last.pre) : o.dep = d => PathOnly(o.spec)
       /\ d \in Echoed(last, "skip")

\* C9: a dry-run hoist leaves the tree as it was: the same files with the
\* same contents.
C9_HoistDryRunWritesNothing ==
  (last.op = "hoist" /\ last.dry) => fs = last.pre

\* a dry-run hoist that reported names to add and occurrences to rewrite
C9_Witness ==
  /\ HoistOk
  /\ last.dry
  /\ last.added > 0
  /\ last.updated > 0

(***************************************************************************)
(* restore.                                                                *)
(***************************************************************************)
\* C8: after a non-dry-run restore every manifest outside the ignored
\* directories that existed with a backup file beside it holds the content
\* of its backup Cargo.toml.bak (the backup restore reads; a manifest with
\* any backup has that one); a dry-run restore leaves the tree as it was.
C8_RestoreCopiesBackup ==
  last.op = "restore" =>
    IF last.dry THEN fs = last.pre
    ELSE \A p \in DOMAIN last.pre :
           (/\ IsManifest(p)
            /\ ~Ignored(p)
            /\ \E q \in DOMAIN last.pre : IsBackup(q) /\ q.dir = p.dir) =>
             /\ with_name(p, BAK) \in DOMAIN last.pre
             /\ fs[p] = last.pre[with_name(p, BAK)]
             /\ fs[with_name(p, BAK)] = last.pre[with_name(p, BAK)]

\* a restore brought back a content that differed from the manifest's, for
\* a manifest that also had a timestamped backup
C8_Witness ==
  /\ last.op = "restore"
  /\ ~last.dry
  /\ last.count > 0
  /\ \E b \in DOMAIN last.pre :
       /\ b.name = BAK
       /\ with_name(b, MANIFEST) \in DOMAIN last.pre
       /\ last.pre[with_name(b, MANIFEST)] # last.pre[b]
       /\ fs[with_name(b, MANIFEST)] = last.pre[b]
       /\ \E q \in DOMAIN last.pre : IsBackup(q) /\ q.dir = b.dir /\ Len(q.name) = 3

(***************************************************************************)
(* sort.                                                                   *)
(***************************************************************************)
\* in table tbl the kintsu names come first and each group ascends strictly
OrderedTable(tbl) ==
  \A i, j \in 1..Len(tbl) :
    i < j =>
      /\ StartsWith(tbl[j].k, "kintsu") => StartsWith(tbl[i].k, "kintsu")
      /\ (StartsWith(tbl[i].k, "kintsu") = StartsWith(tbl[j].k, "kintsu")) =>
           StrLess(tbl[i].k, tbl[j].k)

\* the dependency tables of a document: its sections and its shared table
TablesOf(doc) ==
  {doc.secs[sec][1] : sec \in {x \in SectionNames : doc.secs[x] # <<>>}}
    \cup (IF doc.workspace # <<>> /\ doc.workspace[1].dependencies # <<>>
          THEN {doc.workspace[1].dependencies[1]} ELSE {})

MembersOf(doc) ==
  IF doc.workspace # <<>> /\ doc.workspace[1].members # <<>>
  THEN doc.workspace[1].members[1] ELSE <<>>

\* C10: after a non-dry-run sort every dependency table of every discovered
\* manifest has the kintsu names first and both groups in strictly ascending
\* order, and every workspace members list ascends.
C10_SortOrders ==
  (last.op = "sort" /\ ~last.dry /\ last.status = "ok") =>
    \A p \in Discovered(fs) :
      /\ fs[p].parses
      /\ \A tbl \in TablesOf(fs[p].doc) : OrderedTable(tbl)
      /\ \A i, j \in 1..Len(MembersOf(fs[p].doc)) :
           i < j => ~StrLess(MembersOf(fs[p].doc)[j], MembersOf(fs[p].doc)[i])

\* a sort moved a kintsu name ahead of a name that sorts before it as a
\* string, and reordered a members list
C10_Witness ==
  /\ last.op = "sort" /\ ~last.dry /\ last.status = "ok"
  /\ \E p \in Discovered(fs) :
       \E tbl \in TablesOf(fs[p].doc) :
         \E i, j \in 1..Len(tbl) :
           /\ i < j
           /\ StartsWith(tbl[i].k, "kintsu")
           /\ StrLess(tbl[j].k, tbl[i].k)
           /\ tbl \notin TablesOf(last.pre[p].doc)
  /\ \E p \in Discovered(fs) :
       MembersOf(fs[p].doc) # MembersOf(last.pre[p].doc)

(***************************************************************************)
(* C11.  Sorting twice in succession produces no further change: when a    *)
(* sort that wrote ran right after a sort that wrote, every manifest holds *)
(* after the second sort the content it held after the first.              *)
(***************************************************************************)
SortDone == last.op = "sort" /\ ~last.dry /\ last.status = "ok"

SortAfterSort ==
  /\ SortDone
  /\ last.prev.op = "sort" /\ ~last.prev.dry /\ last.prev.status = "ok"

C11_SortTwiceNoChange ==
  SortAfterSort =>
    \A p \in DOMAIN last.pre :
        IsManifest(p) => p \in DOMAIN fs /\ fs[p] = last.pre[p]

\* the first sort reordered a manifest, the second found tables of two and
\* more names and rewrote the files
C11_Witness ==
  /\ SortAfterSort
  /\ last.prev.changed
  /\ last.count > 1
  /\ \E p \in Discovered(last.pre) : \E tbl \in TablesOf(fs[p].doc) : Len(tbl) > 2
  /\ \E p \in Discovered(last.pre) : Len(MembersOf(fs[p].doc)) > 1

(***************************************************************************)
(* C12.  A run of hoist or sort that meets a manifest it cannot parse is   *)
(* fatal and writes nothing: the tree it leaves is the tree it found, no   *)
(* manifest overwritten and no backup file created, wherever the malformed *)
(* manifest stands in discovery order.                                     *)
(***************************************************************************)
Malformed(f) == {p \in Discovered(f) : ~Parses(f[p])}

C12_MalformedWritesNothing ==
  (last.op \in {"hoist", "sort"} /\ Malformed(last.pre) # {}) =>
    last.status # "ok" /\ fs = last.pre

\* the half of C12 that hoist keeps: every document is parsed before the
\* first write
C12_HoistMalformedWritesNothing ==
  (last.op = "hoist" /\ Malformed(last.pre) # {}) =>
    last.status # "ok" /\ fs = last.pre

(***************************************************************************)
(* C13.  With no manifest at the root, hoist and sort fail with            *)
(* MissingRootManifest: the run exits non-zero and writes and backs up no  *)
(* file, also when member manifests exist below the root.                  *)
(***************************************************************************)
C13_MissingRootFails ==
  (last.op \in {"hoist", "sort"} /\ ~Exists(last.pre, root_toml)) =>
    last.status = "exit1" /\ fs = last.pre

\* the half of C13 that hoist keeps
C13_HoistMissingRootFails ==
  (last.op = "hoist" /\ ~Exists(last.pre, root_toml)) =>
    last.status = "exit1" /\ fs = last.pre

(***************************************************************************)
(* C14.  A name with an occurrence that carries a version and another,     *)
(* path-only occurrence is still hoisted, in whichever order the two are   *)
(* met: hoist does not echo it as skipped, a non-dry-run puts the name in  *)
(* the shared table and rewrites every occurrence that carries a version   *)
(* to a workspace reference; a name is skipped only when none of its       *)
(* occurrences carries a version.                                          *)
(***************************************************************************)
Versioned(f, dep) ==
  {o \in Collected(f) : o.dep = dep /\ o.spec.version # <<>>}

PathOnlyOf(f, dep) == {o \in Collected(f) : o.dep = dep /\ PathOnly(o.spec)}

C14_VersionedBesidePathOnlyHoisted ==
  HoistOk =>
    \A dep \in {o.dep : o \in Collected(last.pre)} :
      /\ (Versioned(last.pre, dep) # {} /\ PathOnlyOf(last.pre, dep) # {}) =>
            /\ dep \notin Echoed(last, "skip")
            /\ ~last.dry =>
                  /\ dep \in SharedNames(fs)
                  /\ \A o \in Versioned(last.pre, dep) :
                        \A n \in DeclarationAt(fs, o.p, o.sec, dep) :
                          n.kind = "tbl" /\ n.version = <<>> /\ n.workspace = <<TRUE>>
      /\ dep \in Echoed(last, "skip") => Versioned(last.pre, dep) = {}

(***************************************************************************)
(* C15.  At every point between two file operations of a non-dry-run hoist *)
(* (where the run may be killed), and at its end: each manifest is either  *)
(* untouched or fully migrated, every manifest already overwritten has a   *)
(* backup beside it that holds its content from before the run, and no     *)
(* member manifest is overwritten before the root manifest when the run    *)
(* writes the root.                                                        *)
(***************************************************************************)
HoistWriting ==
  last.op = "hoist" /\ ~last.dry /\ last.status \in {"ok", "crashed"}

\* member p holds what the run leads it to: the collected occurrences of the
\* hoisted names refer to the workspace, every other declaration is as before
Migrated(p) ==
  /\ \A o \in Declarations(last.pre, p) :
       IF o.dep \in HoistedNames /\ ~FlaggedWorkspace(o.spec)
       THEN /\ DeclarationAt(fs, p, o.sec, o.dep) # {}
            /\ \A n \in DeclarationAt(fs, p, o.sec, o.dep) :
                 n.kind = "tbl" /\ n.version = <<>> /\ n.workspace = <<TRUE>>
       ELSE DeclarationAt(fs, p, o.sec, o.dep) = {o.spec}
  /\ \A n \in Declarations(fs, p) :
       DeclarationAt(last.pre, p, n.sec, n.dep) # {}

\* the root holds what the run leads it to: every hoisted name is shared
RootMigrated == HoistedNames \subseteq SharedNames(fs)

\* the manifests whose backup the run has made
BackedUp == {last.modified[i].file : i \in 1..Len(last.modified)}

C15_CrashConsistent ==
  HoistWriting =>
    /\ DOMAIN last.pre \subseteq DOMAIN fs
    /\ \A p \in MemberManifests(last.pre) :
         fs[p] = last.pre[p] \/ Migrated(p)
    /\ fs[root_toml] = last.pre[root_toml] \/ RootMigrated
    /\ \A p \in {q \in DOMAIN last.pre : IsManifest(q)} :
         fs[p] # last.pre[p] => p \in BackedUp
    /\ \A i \in 1..Len(last.modified) :
         LET bak == Path(last.modified[i].file.dir, last.modified[i].bak)
         IN  bak \in DOMAIN fs /\ fs[bak] = last.pre[last.modified[i].file]
    /\ (/\ \E p \in MemberManifests(last.pre) : fs[p] # last.pre[p]
        /\ ~(HoistedNames \subseteq SharedNames(last.pre)))
         => (fs[root_toml] # last.pre[root_toml] /\ RootMigrated)

\* the run was killed after it had overwritten the root and one member and
\* before it overwrote another member whose declarations it would rewrite
C15_Witness ==
  /\ HoistWriting /\ last.status = "crashed"
  /\ fs[root_toml] # last.pre[root_toml]
  /\ \E p, q \in MemberManifests(last.pre) :
       /\ fs[p] # last.pre[p]
       /\ fs[q] = last.pre[q]
       /\ \E o \in Collected(last.pre) : o.p = q /\ o.dep \in HoistedNames

(***************************************************************************)
(* C16.  A non-dry-run hoist writes and backs up the root manifest only if *)
(* the shared table changed, and a member manifest only if the run         *)
(* modified it: a manifest the run leaves with the content it had is not   *)
(* overwritten and gets no new backup file beside it.                      *)
(***************************************************************************)
BackupsBeside(f, p) == {q \in DOMAIN f : q.dir = p.dir /\ IsBackup(q)}

C16_OnlyModifiedWritten ==
  HoistDone =>
    \A p \in Discovered(last.pre) :
      fs[p] = last.pre[p] =>
        /\ p \notin Overwritten
        /\ BackupsBeside(fs, p) = BackupsBeside(last.pre, p)

\* the half of C16 that hoist keeps: the root is written and backed up only
\* when a name was added to the shared table
C16_RootOnlyIfAdded ==
  (HoistDone /\ SharedTable(fs) = SharedTable(last.pre)) =>
    /\ root_toml \notin Overwritten
    /\ BackupsBeside(fs, root_toml) = BackupsBeside(last.pre, root_toml)

(***************************************************************************)
(* C17.  A restore skips and reports a backup whose original manifest does *)
(* not exist, and does not abort: the run ends normally, the missing       *)
(* manifest is not created and not counted as restored, and every other    *)
(* backup whose original exists is counted and, in a non-dry-run, restored.*)
(***************************************************************************)
\* the backups restore reads in tree f whose original exists (or not)
RestorableBackups(f, paired) ==
  {b \in DOMAIN f : /\ b.name = BAK
                    /\ ~Ignored(b)
                    /\ (with_name(b, MANIFEST) \in DOMAIN f) = paired}

Restored == {last.modified[i].file : i \in 1..Len(last.modified)}

C17_MissingOriginalSkipped ==
  last.op = "restore" =>
    /\ last.status = "ok"
    /\ \A b \in RestorableBackups(last.pre, FALSE) :
         /\ with_name(b, MANIFEST) \notin DOMAIN fs
         /\ with_name(b, MANIFEST) \notin Restored
         /\ \E i \in 1..Len(last.log) : last.log[i] = <<"skip", b>>
    /\ last.count = Cardinality(RestorableBackups(last.pre, TRUE))
    /\ \A b \in RestorableBackups(last.pre, TRUE) :
         /\ with_name(b, MANIFEST) \in Restored
         /\ ~last.dry => fs[with_name(b, MANIFEST)] = last.pre[b]

\* a non-dry-run restore skipped a backup without original and brought back
\* another manifest whose content differed from its backup
C17_Witness ==
  /\ last.op = "restore" /\ ~last.dry
  /\ RestorableBackups(last.pre, FALSE) # {}
  /\ \E b \in RestorableBackups(last.pre, TRUE) :
       /\ last.pre[with_name(b, MANIFEST)] # last.pre[b]
       /\ fs[with_name(b, MANIFEST)] = last.pre[b]

(***************************************************************************)
(* C18.  The counts of hoist: added is the number of names the run put     *)
(* into the shared table, updated the number of member occurrences it      *)
(* rewrote to workspace references (two members with the same name give    *)
(* updated = 2 and added = 1), skipped the number of distinct collected    *)
(* names it did not hoist; and a dry-run reports the three counts that the *)
(* non-dry-run on the same tree reports.                                   *)
(***************************************************************************)
\* the collected occurrences the run rewrote, seen on the trees
Rewritten ==
  {o \in Collected(last.pre) : DeclarationAt(fs, o.p, o.sec, o.dep) # {o.spec}}

HoistAfterDryRun ==
  /\ HoistDone
  /\ last.prev.op = "hoist" /\ last.prev.dry /\ last.prev.status = "ok"

C18_HoistCounts ==
  /\ HoistDone =>
       /\ last.added = Cardinality(SharedNames(fs) \ SharedNames(last.pre))
       /\ last.updated = Cardinality(Rewritten)
       /\ \A o \in Rewritten :
            \A n \in DeclarationAt(fs, o.p, o.sec, o.dep) : n.workspace = <<TRUE>>
       /\ last.skipped =
            Cardinality({o.dep : o \in Collected(last.pre)}
                          \ {o.dep : o \in Rewritten})
  /\ HoistAfterDryRun =>
       /\ last.prev.added = last.added
       /\ last.prev.updated = last.updated
       /\ last.prev.skipped = last.skipped

\* after a dry-run, a hoist of one name that two members declare, beside a
\* name it skipped: added = 1, updated = 2
C18_Witness ==
  /\ HoistAfterDryRun
  /\ last.added = 1 /\ last.updated = 2 /\ last.skipped > 0
  /\ \E o1, o2 \in Rewritten : o1.dep = o2.dep /\ o1.p # o2.p

(***************************************************************************)
(* C19.  A sort with --dry-run changes nothing on disk, overwriting no     *)
(* manifest and creating no backup file, and the count it reports is the   *)
(* number of files whose content a non-dry-run sort would change: zero on  *)
(* a tree that is already sorted.                                          *)
(***************************************************************************)
\* every table and members list of every discovered manifest of f is ordered
SortedTree(f) ==
  \A p \in Discovered(f) :
    /\ \A tbl \in TablesOf(f[p].doc) : OrderedTable(tbl)
    /\ \A i, j \in 1..Len(MembersOf(f[p].doc)) :
         i < j => ~StrLess(MembersOf(f[p].doc)[j], MembersOf(f[p].doc)[i])

C19_SortDryRunChangesNothing ==
  (last.op = "sort" /\ last.dry /\ last.status = "ok") =>
    /\ fs = last.pre
    /\ SortedTree(last.pre) => last.count = 0

\* the first half of C19 alone: the tree is left as it was
C19_SortDryRunWritesNothing ==
  (last.op = "sort" /\ last.dry /\ last.status = "ok") => fs = last.pre

\* the second half of C19 alone: nothing to change, count zero
C19_SortDryRunCountsChanges ==
  (last.op = "sort" /\ last.dry /\ last.status = "ok" /\ SortedTree(last.pre))
    => last.count = 0

\* what the dry-run keeps: it overwrites no manifest
C19_SortDryRunKeepsManifests ==
  (last.op = "sort" /\ last.dry) =>
    \A p \in DOMAIN last.pre : IsManifest(p) => fs[p] = last.pre[p]

(***************************************************************************)
(* C20.  A non-dry-run restore that runs right after a non-dry-run hoist   *)
(* returns every manifest the hoist overwrote to the content it had before *)
(* that hoist, on every tree, also where .bak files of earlier runs exist  *)
(* and the hoist's own backup got the timestamped name.                    *)
(***************************************************************************)
C20_RestoreUndoesHoist ==
  [][(HoistDone /\ last'.op = "restore" /\ ~last'.dry /\ runs' = runs + 1) =>
       \A p \in Overwritten : fs'[p] = last.pre[p]]_vars

\* the part of C20 that holds: the manifests whose backup by the hoist got
\* the default name Cargo.toml.bak come back
C20_RestoreUndoesDefaultBackups ==
  [][(HoistDone /\ last'.op = "restore" /\ ~last'.dry /\ runs' = runs + 1) =>
       \A i \in 1..Len(last.modified) :
         last.modified[i].bak = BAK =>
           fs'[last.modified[i].file] = last.pre[last.modified[i].file]]_vars
====
